---- MODULE Spec2Model ----
(* Model of image.py: the module body (definition of analyze_image at line 5 *)
(* and its call at line 51) as a sequential state machine.  The environment *)
(* (the process-wide OPENAI_API_KEY value, the file system, the remote      *)
(* service) is chosen in Init or at the step that consults it.              *)
EXTENDS Integers, Sequences, FiniteSets

VARIABLES pc, error, OPENAI_API_KEY, fileState, fileBytes, text_prompt,
          api_key, client, image_file, base64_image, sent, response, stdout

vars == <<pc, error, OPENAI_API_KEY, fileState, fileBytes, text_prompt,
          api_key, client, image_file, base64_image, sent, response, stdout>>

----------------------------------------------------------------------------
(* Bounds of the model *)

\* longest image file, in bytes
MaxLen == 3

\* byte values a file may hold (low, mixed and high bit patterns)
ByteVals == {0, 77, 170, 255}

RECURSIVE SeqsUpTo(_, _)
SeqsUpTo(S, n) ==
    IF n = 0 THEN {<<>>}
    ELSE LET shorter == SeqsUpTo(S, n - 1)
         IN  shorter \cup {Append(s, x) : s \in {t \in shorter : Len(t) = n - 1}, x \in S}

FileContents == SeqsUpTo(ByteVals, MaxLen)

----------------------------------------------------------------------------
(* Environment values *)

\* states of the name OPENAI_API_KEY when line 5 evaluates the default:
\* not bound at all, bound to None, bound to a key the service rejects,
\* bound to a key the service accepts
KeyStates == {"undefined", "none", "rejected", "accepted"}

\* states of the path given to open(): no such file, no permission,
\* opens but read() fails, opens and reads
FileStates == {"missing", "denied", "ioerror", "ok"}

\* the prompt of the script (line 34-49, abbreviated), another prompt, the empty one
quadrant_input == "Identify which numbered section contains the submit text button"
Prompts == {quadrant_input, "Identify section 1-40 containing the search bar", ""}

\* message.content is a str or None
Str(s) == [none |-> FALSE, str |-> s]
None == [none |-> TRUE, str |-> <<>>]
Choice(c) == [message |-> [content |-> c]]

Contents == {Str(<<"1", "7">>), Str(<<>>), Str(<<"a", "\n", "b">>), Str(<<"4", "\n">>), None}

Responses ==
    {[choices |-> <<>>]}
    \cup {[choices |-> <<Choice(c)>>] : c \in Contents}
    \cup {[choices |-> <<Choice(Str(<<"1", "7">>)), Choice(Str(<<"9">>))>>],
          [choices |-> <<Choice(Str(<<"9">>)), Choice(Str(<<"1", "7">>))>>]}

NoResponse == [choices |-> <<>>, absent |-> TRUE]

----------------------------------------------------------------------------
(* base64.b64encode(...).decode('utf-8'), line 9 *)

\* ASCII code of the base64 digit for a 6-bit value
B64Code(v) ==
    IF v < 26 THEN 65 + v
    ELSE IF v < 52 THEN 97 + (v - 26)
    ELSE IF v < 62 THEN 48 + (v - 52)
    ELSE IF v = 62 THEN 43
    ELSE 47

PadCode == 61

\* variant: only whole three-byte groups are encoded, the tail is dropped
RECURSIVE b64encode_WholeGroups(_)
b64encode_WholeGroups(bytes) ==
    IF Len(bytes) < 3 THEN <<>>
    ELSE <<B64Code(bytes[1] \div 4),
           B64Code((bytes[1] % 4) * 16 + bytes[2] \div 16),
           B64Code((bytes[2] % 16) * 4 + bytes[3] \div 64),
           B64Code(bytes[3] % 64)>>
         \o b64encode_WholeGroups(SubSeq(bytes, 4, Len(bytes)))

RECURSIVE b64encode(_)
b64encode(bytes) ==
    IF Len(bytes) = 0 THEN <<>>
    ELSE IF Len(bytes) = 1 THEN
        <<B64Code(bytes[1] \div 4), B64Code((bytes[1] % 4) * 16), PadCode, PadCode>>
    ELSE IF Len(bytes) = 2 THEN
        <<B64Code(bytes[1] \div 4),
          B64Code((bytes[1] % 4) * 16 + bytes[2] \div 16),
          B64Code((bytes[2] % 16) * 4),
          PadCode>>
    ELSE
        <<B64Code(bytes[1] \div 4),
          B64Code((bytes[1] % 4) * 16 + bytes[2] \div 16),
          B64Code((bytes[2] % 16) * 4 + bytes[3] \div 64),
          B64Code(bytes[3] % 64)>>
        \o b64encode(SubSeq(bytes, 4, Len(bytes)))

Upper == <<"A","B","C","D","E","F","G","H","I","J","K","L","M",
           "N","O","P","Q","R","S","T","U","V","W","X","Y","Z">>
Lower == <<"a","b","c","d","e","f","g","h","i","j","k","l","m",
           "n","o","p","q","r","s","t","u","v","w","x","y","z">>
Digit == <<"0","1","2","3","4","5","6","7","8","9">>

\* the character of a one-byte UTF-8 code unit (the ones base64 produces)
AsciiChar(code) ==
    IF code >= 65 /\ code <= 90 THEN Upper[code - 64]
    ELSE IF code >= 97 /\ code <= 122 THEN Lower[code - 96]
    ELSE IF code >= 48 /\ code <= 57 THEN Digit[code - 47]
    ELSE IF code = 43 THEN "+"
    ELSE IF code = 47 THEN "/"
    ELSE IF code = 61 THEN "="
    ELSE "?"

decode_utf8(codes) == [i \in 1..Len(codes) |-> AsciiChar(codes[i])]

----------------------------------------------------------------------------
(* The request of lines 11-28 *)

Model == "gpt-4.1-mini-2025-04-14"

\* the literal part of the f-string of line 22
DataUriPrefix == <<"d","a","t","a",":","i","m","a","g","e","/","j","p","e","g",
                   ";","b","a","s","e","6","4",",">>

\* variant: the image part is put before the text part
BuildRequest_ImageFirst(prompt, b64) ==
    [model |-> Model,
     messages |-> <<
        [role |-> "user",
         content |-> <<
            [type |-> "image_url", image_url |-> [url |-> DataUriPrefix \o b64]],
            [type |-> "text", text |-> prompt]
         >>]
     >>]

BuildRequest(prompt, b64) ==
    [model |-> Model,
     messages |-> <<
        [role |-> "user",
         content |-> <<
            [type |-> "text", text |-> prompt],
            [type |-> "image_url", image_url |-> [url |-> DataUriPrefix \o b64]]
         >>]
     >>]

\* str() of the argument of print, line 30
PyStr(c) == IF c.none THEN <<"N", "o", "n", "e">> ELSE c.str

\* what print(x) writes: str(x) and the line terminator
WriteLine(c) == PyStr(c) \o <<"\n">>

----------------------------------------------------------------------------
(* Initial state: the interpreter is about to execute line 5 *)

Init ==
    /\ pc = "def"
    /\ error = "none"
    /\ OPENAI_API_KEY \in KeyStates
    /\ fileState \in FileStates
    /\ fileBytes \in FileContents
    /\ (fileState \in {"missing", "denied"} => fileBytes = <<>>)
    /\ text_prompt \in Prompts
    /\ api_key = "unbound"
    /\ client = "none"
    /\ image_file = "none"
    /\ base64_image = <<>>
    /\ sent = <<>>
    /\ response = NoResponse
    /\ stdout = <<>>

Fail(e) == pc' = "failed" /\ error' = e

----------------------------------------------------------------------------
(* Steps *)

\* line 5: the def statement evaluates the default of api_key; lines 32-51
\* then bind the prompt and call the function
DefineAndCall ==
    /\ pc = "def"
    /\ IF OPENAI_API_KEY = "undefined"
       THEN /\ Fail("NameError")
            /\ UNCHANGED api_key
       ELSE /\ pc' = "client"
            /\ api_key' = OPENAI_API_KEY
            /\ UNCHANGED error
    /\ UNCHANGED <<OPENAI_API_KEY, fileState, fileBytes, text_prompt,
                   client, image_file, base64_image, sent, response, stdout>>

\* variant: the client takes any key and never refuses at construction
ConstructClient_Lazy ==
    /\ pc = "client"
    /\ pc' = "open"
    /\ client' = "constructed"
    /\ UNCHANGED <<error, OPENAI_API_KEY, fileState, fileBytes, text_prompt,
                   api_key, image_file, base64_image, sent, response, stdout>>

\* line 6: openai.OpenAI(api_key=api_key); a None key is refused here
ConstructClient ==
    /\ pc = "client"
    /\ IF api_key = "none"
       THEN /\ Fail("AuthenticationError")
            /\ UNCHANGED client
       ELSE /\ pc' = "open"
            /\ client' = "constructed"
            /\ UNCHANGED error
    /\ UNCHANGED <<OPENAI_API_KEY, fileState, fileBytes, text_prompt,
                   api_key, image_file, base64_image, sent, response, stdout>>

\* variant: the file is opened in a mode that creates it when absent
OpenFile_Creates ==
    /\ pc = "open"
    /\ IF fileState = "denied"
       THEN /\ Fail("FileAccessError")
            /\ UNCHANGED image_file
       ELSE /\ pc' = "read"
            /\ image_file' = "open"
            /\ UNCHANGED error
    /\ UNCHANGED <<OPENAI_API_KEY, fileState, fileBytes, text_prompt,
                   api_key, client, base64_image, sent, response, stdout>>

\* line 8: open(image_path, "rb")
OpenFile ==
    /\ pc = "open"
    /\ IF fileState \in {"missing", "denied"}
       THEN /\ Fail("FileAccessError")
            /\ UNCHANGED image_file
       ELSE /\ pc' = "read"
            /\ image_file' = "open"
            /\ UNCHANGED error
    /\ UNCHANGED <<OPENAI_API_KEY, fileState, fileBytes, text_prompt,
                   api_key, client, base64_image, sent, response, stdout>>

\* variant: no with block, close() is only reached when read() returns
ReadEncode_NoRelease ==
    /\ pc = "read"
    /\ IF fileState = "ioerror"
       THEN /\ Fail("FileAccessError")
            /\ UNCHANGED <<base64_image, image_file>>
       ELSE /\ pc' = "create"
            /\ image_file' = "closed"
            /\ base64_image' = decode_utf8(b64encode(fileBytes))
            /\ UNCHANGED error
    /\ UNCHANGED <<OPENAI_API_KEY, fileState, fileBytes, text_prompt,
                   api_key, client, sent, response, stdout>>

\* line 9 and the exit of the with block: read, encode, release the handle
\* whether or not the body raised
ReadEncode ==
    /\ pc = "read"
    /\ image_file' = "closed"
    /\ IF fileState = "ioerror"
       THEN /\ Fail("FileAccessError")
            /\ UNCHANGED base64_image
       ELSE /\ pc' = "create"
            /\ base64_image' = decode_utf8(b64encode(fileBytes))
            /\ UNCHANGED error
    /\ UNCHANGED <<OPENAI_API_KEY, fileState, fileBytes, text_prompt,
                   api_key, client, sent, response, stdout>>

\* lines 11-28, first half: the request is built and goes out
SendRequest ==
    /\ pc = "create"
    /\ sent' = Append(sent, BuildRequest(text_prompt, base64_image))
    /\ pc' = "await"
    /\ UNCHANGED <<error, OPENAI_API_KEY, fileState, fileBytes, text_prompt,
                   api_key, client, image_file, base64_image, response, stdout>>

\* variant: a failed call is caught and the request is issued once more
ReceiveResponse_Retry ==
    /\ pc = "await"
    /\ \/ /\ api_key = "rejected"
          /\ IF Len(sent) < 2
             THEN pc' = "create" /\ UNCHANGED error
             ELSE Fail("AuthenticationError")
          /\ UNCHANGED response
       \/ /\ api_key = "accepted"
          /\ IF Len(sent) < 2
             THEN pc' = "create" /\ UNCHANGED error
             ELSE Fail("ServiceError")
          /\ UNCHANGED response
       \/ /\ api_key = "accepted"
          /\ \E r \in Responses : response' = r
          /\ pc' = "print"
          /\ UNCHANGED error
    /\ UNCHANGED <<OPENAI_API_KEY, fileState, fileBytes, text_prompt,
                   api_key, client, image_file, base64_image, sent, stdout>>

\* variant: a rejected credential is caught and an empty answer stands in
ReceiveResponse_Fallback ==
    /\ pc = "await"
    /\ \/ /\ api_key = "rejected"
          /\ response' = [choices |-> <<Choice(None)>>]
          /\ pc' = "print"
          /\ UNCHANGED error
       \/ /\ api_key = "accepted"
          /\ Fail("ServiceError")
          /\ UNCHANGED response
       \/ /\ api_key = "accepted"
          /\ \E r \in Responses : response' = r
          /\ pc' = "print"
          /\ UNCHANGED error
    /\ UNCHANGED <<OPENAI_API_KEY, fileState, fileBytes, text_prompt,
                   api_key, client, image_file, base64_image, sent, stdout>>

\* lines 11-28, second half: the blocking call returns or raises
ReceiveResponse ==
    /\ pc = "await"
    /\ \/ /\ api_key = "rejected"
          /\ Fail("AuthenticationError")
          /\ UNCHANGED response
       \/ /\ api_key = "accepted"
          /\ Fail("ServiceError")
          /\ UNCHANGED response
       \/ /\ api_key = "accepted"
          /\ \E r \in Responses : response' = r
          /\ pc' = "print"
          /\ UNCHANGED error
    /\ UNCHANGED <<OPENAI_API_KEY, fileState, fileBytes, text_prompt,
                   api_key, client, image_file, base64_image, sent, stdout>>

\* variant: the last choice is printed instead of the first
PrintContent_LastChoice ==
    /\ pc = "print"
    /\ IF Len(response.choices) = 0
       THEN /\ Fail("ResponseShapeError")
            /\ UNCHANGED stdout
       ELSE /\ stdout' = stdout \o WriteLine(response.choices[Len(response.choices)].message.content)
            /\ pc' = "done"
            /\ UNCHANGED error
    /\ UNCHANGED <<OPENAI_API_KEY, fileState, fileBytes, text_prompt,
                   api_key, client, image_file, base64_image, sent, response>>

\* variant: the choices are printed before the first one is picked
PrintContent_Reports ==
    /\ pc = "print"
    /\ IF Len(response.choices) = 0
       THEN /\ Fail("ResponseShapeError")
            /\ stdout' = stdout \o <<"[", "]", "\n">>
       ELSE /\ stdout' = stdout \o WriteLine(response.choices[1].message.content)
            /\ pc' = "done"
            /\ UNCHANGED error
    /\ UNCHANGED <<OPENAI_API_KEY, fileState, fileBytes, text_prompt,
                   api_key, client, image_file, base64_image, sent, response>>

\* line 30: print(response.choices[0].message.content)
PrintContent ==
    /\ pc = "print"
    /\ IF Len(response.choices) = 0
       THEN /\ Fail("ResponseShapeError")
            /\ UNCHANGED stdout
       ELSE /\ stdout' = stdout \o WriteLine(response.choices[1].message.content)
            /\ pc' = "done"
            /\ UNCHANGED error
    /\ UNCHANGED <<OPENAI_API_KEY, fileState, fileBytes, text_prompt,
                   api_key, client, image_file, base64_image, sent, response>>

Next ==
    \/ DefineAndCall
    \/ ConstructClient
    \/ OpenFile
    \/ ReadEncode
    \/ SendRequest
    \/ ReceiveResponse
    \/ PrintContent

Spec == Init /\ [][Next]_vars

----------------------------------------------------------------------------
(* Vocabulary of the properties *)

Terminal == pc \in {"done", "failed"}

\* number of line terminators written to standard output
LineCount(out) == Cardinality({i \in 1..Len(out) : out[i] = "\n"})

HasFirstChoice == response # NoResponse /\ Len(response.choices) > 0

\* the text Python prints for the first choice's content field
FirstContentText ==
    LET c == response.choices[1].message.content
    IN  IF c.none THEN <<"N", "o", "n", "e">> ELSE c.str

\* the part of a request's data URI after the declared media type
PayloadOf(req) ==
    LET url == req.messages[1].content[2].image_url.url
    IN  SubSeq(url, Len(DataUriPrefix) + 1, Len(url))

\* RFC 4648 alphabet, by value
Alphabet == Upper \o Lower \o Digit \o <<"+", "/">>

IsDigit64(ch) == \E v \in 1..64 : Alphabet[v] = ch
SextetOf(ch) == (CHOOSE v \in 1..64 : Alphabet[v] = ch) - 1

\* base64 decoding of a padded text, four characters at a time
RECURSIVE b64decode(_)
b64decode(text) ==
    IF Len(text) < 4 THEN <<>>
    ELSE LET a == SextetOf(text[1])
             b == SextetOf(text[2])
             rest == SubSeq(text, 5, Len(text))
         IN  IF text[3] = "=" THEN <<a * 4 + b \div 16>>
             ELSE LET c == SextetOf(text[3])
                  IN  IF text[4] = "="
                      THEN <<a * 4 + b \div 16, (b % 16) * 16 + c \div 4>>
                      ELSE <<a * 4 + b \div 16, (b % 16) * 16 + c \div 4,
                             (c % 4) * 64 + SextetOf(text[4])>>
                           \o b64decode(rest)

WellFormed64(text) ==
    /\ Len(text) % 4 = 0
    /\ \A i \in 1..Len(text) :
          \/ IsDigit64(text[i])
          \/ text[i] = "=" /\ i > Len(text) - 2 /\ i > 2
               /\ \A j \in i..Len(text) : text[j] = "="

Pow2(n) == IF n = 0 THEN 1 ELSE IF n = 1 THEN 2 ELSE IF n = 2 THEN 4
           ELSE IF n = 3 THEN 8 ELSE IF n = 4 THEN 16 ELSE IF n = 5 THEN 32
           ELSE IF n = 6 THEN 64 ELSE 128

\* bit k (from 0, most significant first) of a stream of w-bit units
BitAt(units, w, k) == (units[k \div w + 1] \div Pow2((w - 1) - (k % w))) % 2

\* text is the RFC 4648 encoding of bytes: the digits spell the bits of the
\* bytes, zero-filled to a whole digit, then '=' up to a multiple of four
Encodes(text, bytes) ==
    LET n == Len(bytes)
        digits == (8 * n + 5) \div 6
        total == 4 * ((n + 2) \div 3)
    IN  /\ Len(text) = total
        /\ \A i \in 1..total : IF i <= digits THEN IsDigit64(text[i]) ELSE text[i] = "="
        /\ LET vals == [i \in 1..digits |-> SextetOf(text[i])]
           IN  \A k \in 0..(6 * digits - 1) :
                  BitAt(vals, 6, k) = IF k < 8 * n THEN BitAt(bytes, 8, k) ELSE 0

----------------------------------------------------------------------------
(* C1 *)

\* C1 as stated: for a valid image path and a non-empty prompt, a finished
\* run of analyze_image has issued exactly one request and printed exactly
\* one line, equal to the content field of the first choice of the response.
C1_AsStated ==
    (Terminal /\ api_key # "unbound" /\ fileState = "ok" /\ text_prompt # "") =>
        /\ Len(sent) = 1
        /\ LineCount(stdout) = 1
        /\ HasFirstChoice
        /\ ~response.choices[1].message.content.none
        /\ stdout = response.choices[1].message.content.str \o <<"\n">>

\* C1 amended: for a valid image path and a non-empty prompt, when the remote
\* call returns a response that has a first choice, the finished run has
\* succeeded, has issued exactly one request, and standard output is the
\* printed form of that choice's content followed by one line terminator,
\* which is exactly one line when the content holds no line break.
C1_OneRequestOnePrint ==
    (Terminal /\ fileState = "ok" /\ text_prompt # "" /\ HasFirstChoice) =>
        /\ pc = "done"
        /\ Len(sent) = 1
        /\ Len(stdout) = Len(FirstContentText) + 1
        /\ SubSeq(stdout, 1, Len(stdout) - 1) = FirstContentText
        /\ stdout[Len(stdout)] = "\n"
        /\ (LineCount(FirstContentText) = 0 => LineCount(stdout) = 1)

C1_Witness ==
    /\ pc = "done" /\ fileState = "ok" /\ text_prompt # ""
    /\ Len(response.choices) = 2
    /\ stdout = <<"1", "7", "\n">>
    /\ Len(sent) = 1

----------------------------------------------------------------------------
(* C2 *)

\* C2 as stated: for a non-existent image path a run of analyze_image fails
\* with FileAccessError, with no request issued and nothing printed.
C2_AsStated ==
    (Terminal /\ api_key # "unbound" /\ fileState = "missing") =>
        /\ pc = "failed" /\ error = "FileAccessError"
        /\ sent = <<>> /\ stdout = <<>>

\* C2 amended: for a non-existent image path every run fails with no request
\* issued, no payload encoded and nothing printed; the failure is the
\* FileAccessError exactly when the client was constructed, and otherwise
\* the credential failure raised before the file is opened.
C2_MissingFileFailsBeforeRequest ==
    /\ (fileState = "missing" => sent = <<>> /\ stdout = <<>> /\ base64_image = <<>>
                                  /\ image_file = "none" /\ pc # "done")
    /\ (Terminal /\ fileState = "missing") =>
          /\ (client = "constructed" <=> error = "FileAccessError")
          /\ (client = "none" <=> error \in {"NameError", "AuthenticationError"})

C2_Witness ==
    /\ pc = "failed" /\ fileState = "missing" /\ error = "FileAccessError"
    /\ client = "constructed" /\ sent = <<>>

----------------------------------------------------------------------------
(* C3 *)

----------------------------------------------------------------------------
(* C4 *)

\* C4 as stated: at termination of any run exactly one request has been sent.
C4_AsStated == Terminal => Len(sent) = 1

\* C4 amended: every run issues at most one request; at termination the
\* count is 1 exactly when the client was constructed and the image file was
\* opened and read, and 0 otherwise.
C4_AtMostOneRequest ==
    /\ Len(sent) <= 1
    /\ Terminal => (Len(sent) = 1 <=> (client = "constructed" /\ fileState = "ok"))
    /\ Terminal => (Len(sent) = 0 <=> error \in {"NameError", "FileAccessError"}
                                      \/ (error = "AuthenticationError" /\ client = "none"))

C4_Witness == pc = "failed" /\ error = "ServiceError" /\ Len(sent) = 1

----------------------------------------------------------------------------
(* C5 *)

\* C5: no failure is caught or retried: a recorded failure means the run has
\* terminated, no step after the failing one has left an effect, and a failed
\* remote call is never followed by a second request.
C5_FailuresPropagate ==
    /\ (error # "none" <=> pc = "failed")
    /\ Len(sent) <= 1
    /\ (error = "NameError" =>
          api_key = "unbound" /\ client = "none" /\ image_file = "none"
          /\ sent = <<>> /\ response = NoResponse /\ stdout = <<>>)
    /\ (error = "AuthenticationError" /\ client = "none" =>
          image_file = "none" /\ base64_image = <<>> /\ sent = <<>>
          /\ response = NoResponse /\ stdout = <<>>)
    /\ (error = "FileAccessError" =>
          base64_image = <<>> /\ sent = <<>> /\ response = NoResponse /\ stdout = <<>>)
    /\ (error \in {"AuthenticationError", "ServiceError"} /\ client = "constructed" =>
          Len(sent) = 1 /\ response = NoResponse /\ stdout = <<>>)
    /\ (error = "ResponseShapeError" => Len(sent) = 1 /\ stdout = <<>>)

C5_Witness ==
    /\ pc = "failed" /\ error = "ServiceError" /\ Len(sent) = 1
    /\ response = NoResponse /\ stdout = <<>> /\ text_prompt = quadrant_input

----------------------------------------------------------------------------
(* C6 *)

\* C6: a run ends in one of two ways, and something is on standard output if
\* and only if it ended in success: a successful run has printed a line, a
\* failed run (file access, authentication, service failure, response
\* without a first choice) has printed nothing.
C6_OutputIffSuccess ==
    /\ (stdout # <<>> <=> pc = "done")
    /\ (pc = "done" => error = "none" /\ LineCount(stdout) >= 1 /\ stdout[Len(stdout)] = "\n")
    /\ (pc = "failed" => error # "none" /\ stdout = <<>>)

C6_Witness ==
    /\ pc = "failed" /\ error = "ResponseShapeError" /\ stdout = <<>>
    /\ response = [choices |-> <<>>]

----------------------------------------------------------------------------
(* C7 *)

\* C7: the image file handle is not held outside the encoding step: it is
\* closed while the request is being built, is in flight or has been issued,
\* and it is never open in a terminal state, also when reading fails.
C7_HandleReleased ==
    /\ (image_file = "open" <=> pc = "read")
    /\ (pc \in {"create", "await", "print", "done"} \/ Len(sent) > 0 => image_file = "closed")
    /\ (Terminal => image_file # "open")
    /\ (error = "FileAccessError" /\ fileState = "ioerror" => image_file = "closed")

C7_Witness ==
    /\ pc = "failed" /\ fileState = "ioerror" /\ image_file = "closed"
    /\ error = "FileAccessError"

----------------------------------------------------------------------------
(* C8 *)

\* C8: base64-decoding the payload carried by the data URI of any request
\* sent gives back exactly the bytes of the image file.
C8_Base64RoundTrip ==
    \A i \in 1..Len(sent) :
        /\ WellFormed64(PayloadOf(sent[i]))
        /\ b64decode(PayloadOf(sent[i])) = fileBytes

C8_Witness == Len(sent) = 1 /\ Len(fileBytes) = 2 /\ fileBytes[1] = 255

----------------------------------------------------------------------------
(* C9 *)

\* C9: every request sent names the fixed model and has exactly one message,
\* of role user, whose content is a text part with the given prompt followed
\* by an image_url part whose URL is "data:image/jpeg;base64," and then the
\* base64 encoding of the file's bytes.
C9_RequestShape ==
    \A i \in 1..Len(sent) :
        LET req == sent[i]
            url == req.messages[1].content[2].image_url.url
        IN  /\ DOMAIN req = {"model", "messages"}
            /\ req.model = "gpt-4.1-mini-2025-04-14"
            /\ Len(req.messages) = 1
            /\ req.messages[1].role = "user"
            /\ Len(req.messages[1].content) = 2
            /\ req.messages[1].content[1] = [type |-> "text", text |-> text_prompt]
            /\ req.messages[1].content[2].type = "image_url"
            /\ Len(url) >= 23
            /\ SubSeq(url, 1, 23) = <<"d","a","t","a",":","i","m","a","g","e","/",
                                      "j","p","e","g",";","b","a","s","e","6","4",",">>
            /\ Encodes(SubSeq(url, 24, Len(url)), fileBytes)

C9_Witness ==
    /\ Len(sent) = 1 /\ text_prompt = quadrant_input
    /\ fileBytes = <<77, 170, 255>>

----------------------------------------------------------------------------
(* C10 *)

\* C10: the credential is resolved and the client constructed before the image
\* file is opened: a run whose OPENAI_API_KEY is not defined or is refused at
\* client construction ends in failure with the file never opened, no
\* request issued and nothing printed.
C10_CredentialBeforeFile ==
    /\ (image_file # "none" => api_key # "unbound" /\ client = "constructed")
    /\ (OPENAI_API_KEY \in {"undefined", "none"} =>
          /\ image_file = "none" /\ base64_image = <<>>
          /\ sent = <<>> /\ stdout = <<>>
          /\ pc \in {"def", "client", "failed"})
    /\ (Terminal /\ OPENAI_API_KEY = "undefined" => error = "NameError" /\ api_key = "unbound")
    /\ (Terminal /\ OPENAI_API_KEY = "none" => error = "AuthenticationError" /\ client = "none")

C10_Witness ==
    /\ pc = "failed" /\ OPENAI_API_KEY = "none" /\ fileState = "ok"
    /\ image_file = "none" /\ Len(fileBytes) > 0

====
